---- MODULE Spec2Model ----
(***************************************************************************)
(* Model of simple-smtp-monitoring (main.py): the endpoint classifier, the *)
(* HTTP and TCP probes, the event store (sqlite table "events"), the       *)
(* notifier and the two orchestrator modes run_regular and run_resume.     *)
(*                                                                         *)
(* Text is modelled as a sequence of pieces.  An endpoint descriptor is a  *)
(* sequence of one-character strings; a literal of the program such as     *)
(* "failed " is a single piece in front of it, so that two texts are equal *)
(* exactly when the program's strings are equal.                           *)
(*                                                                         *)
(* Time is counted in ticks, Res ticks to the second: datetime.now() and   *)
(* time.time() carry a fraction of a second, int(...) cuts it off.         *)
(***************************************************************************)
EXTENDS Integers, Sequences, FiniteSets, TLC

VARIABLES
    urls,             \* config["urls"]: the configured endpoint descriptors
    events,           \* rows of table events, in insertion order
    clock,            \* the wall clock, in ticks
    mode,             \* --type of the running process: "none", "regular", "resume"
    pc,               \* position of the running process
    idx,              \* run_regular: position of `url` in urls
    outcome,          \* run_regular: (status, context) of the last run_url
    sent,             \* messages handed to this process's smtp session
    err,              \* the exception that ended the process, or "none"
    probes,           \* history: the probes this run has completed, (url, status)
    base,             \* history: Len(events) when this process started
    resume,           \* run_resume: today, yesterday, url_status_list, totals
    fn, arg, ret      \* a single call of one function, its arguments and its result

vars == <<urls, events, clock, mode, pc, idx, outcome, sent, err,
          probes, base, resume, fn, arg, ret>>

runVars == <<urls, events, clock, mode, pc, idx, outcome, sent, err,
             probes, base, resume>>

callVars == <<fn, arg, ret>>

-----------------------------------------------------------------------------
(* Bounds of the model.                                                    *)

\* ticks per second of the model's clock
Res == 2
\* epoch second at which the model starts (later than one window)
StartSec == 172800
\* single ticks the clock may advance within one day
MaxTicks == 2
\* 24-hour jumps the clock may make
MaxDays == 1
\* rows the events table may hold
MaxEvents == 3
\* length of the configured endpoint list
MaxUrls == 2
\* pieces of a descriptor handed to find_url_type on its own
MaxTokens == 4
\* rows of a store handed to query_event_count on its own
MaxStore == 2
\* seconds after StartSec that a row or a window bound of such a call may lie
MaxSpan == 2

(* Program constants.                                                      *)

\* timedelta(hours=24)
WindowHours == 24
SecondsPerHour == 3600
\* error.status >= 500
ServerErrorStatus == 500
\* urllib's HTTPErrorProcessor: a final status outside 200..299 is raised
HttpOkLow == 200
HttpOkHigh == 299
\* the statuses a responder of the model may answer with
StatusLow == 100
StatusHigh == 599

-----------------------------------------------------------------------------
(* Strings.                                                                *)

LowerLetters == <<"a","b","c","d","e","f","g","h","i","j","k","l","m",
                  "n","o","p","q","r","s","t","u","v","w","x","y","z">>
UpperLetters == <<"A","B","C","D","E","F","G","H","I","J","K","L","M",
                  "N","O","P","Q","R","S","T","U","V","W","X","Y","Z">>
DigitChars == {"0","1","2","3","4","5","6","7","8","9"}

Range(s) == {s[k] : k \in 1..Len(s)}

IsAsciiAlpha(c) == c \in Range(LowerLetters) \cup Range(UpperLetters)

\* urllib.parse.scheme_chars
scheme_chars == Range(LowerLetters) \cup Range(UpperLetters) \cup DigitChars
                    \cup {"+", "-", "."}

\* str.lower() of one character
LowerChar(c) ==
    IF c \in Range(UpperLetters)
    THEN LowerLetters[CHOOSE k \in 1..26 : UpperLetters[k] = c]
    ELSE c

Lower(s) == [k \in 1..Len(s) |-> LowerChar(s[k])]

\* str.find(c), from 1; 0 when c does not occur
Find(s, c) ==
    IF c \in Range(s)
    THEN CHOOSE k \in 1..Len(s) : s[k] = c /\ \A j \in 1..(k - 1) : s[j] # c
    ELSE 0

\* str.rfind(c), from 1; 0 when c does not occur
RFind(s, c) ==
    IF c \in Range(s)
    THEN CHOOSE k \in 1..Len(s) : s[k] = c /\ \A j \in (k + 1)..Len(s) : s[j] # c
    ELSE 0

\* first position of a character of cs in s at or after `from`; Len(s)+1 if none
FindAny(s, cs, from) ==
    IF \E k \in from..Len(s) : s[k] \in cs
    THEN CHOOSE k \in from..Len(s) : s[k] \in cs /\ \A j \in from..(k - 1) : s[j] \notin cs
    ELSE Len(s) + 1

\* s[:k-1] and s[k+1:] around position k
Before(s, k) == SubSeq(s, 1, k - 1)
After(s, k) == SubSeq(s, k + 1, Len(s))

\* str.isdigit(): not empty and digits only
IsDigit(s) == Len(s) > 0 /\ \A k \in 1..Len(s) : s[k] \in DigitChars

\* len(s.split(c)): the number of parts
SplitCount(s, c) == Cardinality({k \in 1..Len(s) : s[k] = c}) + 1

RECURSIVE Flatten(_)
Flatten(ss) == IF ss = <<>> THEN <<>> ELSE Head(ss) \o Flatten(Tail(ss))

\* all sequences over S of length 0..n
RECURSIVE SeqsUpTo(_, _)
SeqsUpTo(S, n) ==
    IF n = 0 THEN {<<>>}
    ELSE LET shorter == SeqsUpTo(S, n - 1)
         IN  shorter \cup {Append(s, x) : s \in {t \in shorter : Len(t) = n - 1}, x \in S}

-----------------------------------------------------------------------------
(* urllib.parse.urlparse, as find_url_type uses it (CPython 3.11).  The    *)
(* descriptors of the model hold no whitespace, control or bracket         *)
(* characters, so the leading strip and the IPv6 check do nothing.         *)

\* schemes whose path is split at ";"
uses_params ==
    {<<>>, <<"f","t","p">>, <<"h","d","l">>, <<"p","r","o","s","p","e","r","o">>,
     <<"h","t","t","p">>, <<"i","m","a","p">>, <<"h","t","t","p","s">>,
     <<"s","h","t","t","p">>, <<"r","t","s","p">>, <<"r","t","s","p","s">>,
     <<"r","t","s","p","u">>, <<"s","i","p">>, <<"s","i","p","s">>, <<"m","m","s">>,
     <<"s","f","t","p">>, <<"t","e","l">>}

\* urlsplit: the scheme and what follows it
SplitScheme(url) ==
    LET i == Find(url, ":")
    IN  IF i > 1 /\ IsAsciiAlpha(url[1]) /\ \A k \in 1..(i - 1) : url[k] \in scheme_chars
        THEN [scheme |-> Lower(Before(url, i)), rest |-> After(url, i)]
        ELSE [scheme |-> <<>>, rest |-> url]

\* urlsplit: "//netloc" up to the next "/", "?" or "#"
SplitNetloc(rest) ==
    IF Len(rest) >= 2 /\ rest[1] = "/" /\ rest[2] = "/"
    THEN LET d == FindAny(rest, {"/", "?", "#"}, 3)
         IN  [netloc |-> SubSeq(rest, 3, d - 1), rest |-> SubSeq(rest, d, Len(rest))]
    ELSE [netloc |-> <<>>, rest |-> rest]

\* url.split(c, 1)[0] when c occurs, url otherwise
CutAt(s, c) == IF Find(s, c) > 0 THEN Before(s, Find(s, c)) ELSE s

\* _splitparams: the path without its ";params"
SplitParams(path) ==
    LET slash == RFind(path, "/")
        i == IF slash > 0
             THEN LET j == FindAny(path, {";"}, slash) IN IF j > Len(path) THEN 0 ELSE j
             ELSE Find(path, ";")
    IN  IF i = 0 THEN path ELSE Before(path, i)

\* urlparse(url): the two components find_url_type reads
urlparse(url) ==
    LET s == SplitScheme(url)
        n == SplitNetloc(s.rest)
        p == CutAt(CutAt(n.rest, "#"), "?")
    IN  [scheme |-> s.scheme,
         path |-> IF s.scheme \in uses_params /\ ";" \in Range(p) THEN SplitParams(p) ELSE p]

MonitoringException == "MonitoringException"

\* find_url_type: "urllib", "telnet", or the exception it raises
find_url_type(url) ==
    LET parsed == urlparse(url)
    IN  IF parsed.scheme \in {<<"h","t","t","p">>, <<"h","t","t","p","s">>} THEN "urllib"
        ELSE IF IsDigit(parsed.path) THEN "telnet"
        ELSE MonitoringException

-----------------------------------------------------------------------------
(* The probes.  A probe's environment is what the network answers.         *)

\* traceback.format_exc(): a text that is never empty
Traceback == "Traceback (most recent call last): ..."

ReasonPhrases == {"", "Internal Server Error", "Not Found"}

\* what a responder can do to one GET: answer with a final status and reason
\* phrase, or fail in the transport (refused, DNS, TLS, timeout, short read)
HttpAnswers ==
    [kind : {"status"}, status : StatusLow..StatusHigh, reason : ReasonPhrases]
        \cup {[kind |-> "transport", status |-> 0, reason |-> ""]}

\* what a TCP port can do to one connect
TcpAnswers == {"open", "refused"}

\* urlopen(url) and response.read(): the response, or the exception raised
urlopen(answer) ==
    IF answer.kind = "transport" THEN [raised |-> "Exception"]
    ELSE IF answer.status >= HttpOkLow /\ answer.status <= HttpOkHigh THEN [raised |-> "none"]
    ELSE [raised |-> "HTTPError", status |-> answer.status, reason |-> answer.reason]

request_late(answer) ==
    LET r == urlopen(answer)
    IN  IF r.raised = "none" THEN <<TRUE, "">>
        ELSE IF r.raised = "HTTPError"
             THEN IF r.status > ServerErrorStatus THEN <<FALSE, r.reason>> ELSE <<TRUE, "">>
        ELSE <<FALSE, Traceback>>

\* request(url): (status, context)
request(answer) ==
    LET r == urlopen(answer)
    IN  IF r.raised = "none" THEN <<TRUE, "">>
        ELSE IF r.raised = "HTTPError"
             THEN IF r.status >= ServerErrorStatus THEN <<FALSE, r.reason>> ELSE <<TRUE, "">>
        ELSE <<FALSE, Traceback>>

\* telnet(url): (status, context); the unpacking of url.split(":") and int(port)
\* raise ValueError inside the try
telnet(url, answer) ==
    IF SplitCount(url, ":") # 2 THEN <<FALSE, Traceback>>
    ELSE IF ~IsDigit(After(url, Find(url, ":"))) THEN <<FALSE, Traceback>>
    ELSE IF answer = "open" THEN <<TRUE, "">>
    ELSE <<FALSE, Traceback>>

-----------------------------------------------------------------------------
(* The event store and the texts written to it.                            *)

\* f"failed {url}" and f"success {url}"
FailedEvent(url) == <<"failed ">> \o url
SuccessEvent(url) == <<"success ">> \o url

\* f"[URGENT] Service failed for url {url}"
UrgentSubject(url) == <<"[URGENT] Service failed for url ">> \o url

ResumeSubject == <<"Monitoring Daily Resume">>

\* build_message(url, context): the values the template interpolates
build_message(url, context) == [url |-> url, context |-> context]

\* int(x.timestamp()), int(time.time()): ticks to whole seconds (ticks >= 0)
IntSeconds(ticks) == ticks \div Res

\* timedelta(hours=24), in ticks
WindowTicks == WindowHours * SecondsPerHour * Res

\* the row log_event inserts: a fresh id, int(time.time()), the description
NewRow(db, now, event) == [id |-> Len(db) + 1, ts |-> IntSeconds(now), description |-> event]

log_event_twice(db, now, event) == Append(Append(db, NewRow(db, now, event)), NewRow(db, now, event))

\* log_event(db, event): the table after the insert and commit
log_event(db, now, event) == Append(db, NewRow(db, now, event))

RECURSIVE CountRows(_, _, _, _)
CountRows(db, event, lo, hi) ==
    IF db = <<>> THEN 0
    ELSE (IF Head(db).description = event /\ Head(db).ts >= lo /\ Head(db).ts <= hi
          THEN 1 ELSE 0) + CountRows(Tail(db), event, lo, hi)

query_event_count_exclusive(db, event, start, end) ==
    CountRows(db, event, IntSeconds(start) + 1, IntSeconds(end))

\* query_event_count: count(*) where description = ? and ts >= ? and ts <= ?
query_event_count(db, event, start, end) ==
    CountRows(db, event, IntSeconds(start), IntSeconds(end))

-----------------------------------------------------------------------------
(* The configuration and the initial state.                                *)

HttpA == <<"h","t","t","p",":","/","/","a">>
TcpA == <<"a",":","1">>
FtpA == <<"f","t","p",":","/","/","a">>

\* parser["monitoring"]["urls"]...split(","): a list of at least one descriptor
UrlLists == SeqsUpTo({HttpA, TcpA, FtpA}, MaxUrls) \ {<<>>}

NoOutcome == <<TRUE, "">>
NoResume == [today |-> 0, yesterday |-> 0, url_status_list |-> <<>>,
             total_errors |-> 0, total_runs |-> 0]

StartTicks == StartSec * Res

InitRun(u) ==
    /\ urls = u
    /\ events = <<>>
    /\ clock = StartTicks
    /\ mode = "none"
    /\ pc = "idle"
    /\ idx = 1
    /\ outcome = NoOutcome
    /\ sent = <<>>
    /\ err = "none"
    /\ probes = <<>>
    /\ base = 0
    /\ resume = NoResume

InitCall ==
    /\ fn = "none"
    /\ arg = [none |-> TRUE]
    /\ ret = [none |-> TRUE]

Init == (\E u \in UrlLists : InitRun(u)) /\ InitCall

-----------------------------------------------------------------------------
(* The wall clock.  Time passes in ticks while a process runs, and in      *)
(* ticks and whole days between two invocations.                           *)

\* no process is running
Stopped == pc \in {"idle", "done", "fatal"}

Tick ==
    /\ (clock - StartTicks) % WindowTicks < MaxTicks
    /\ clock' = clock + 1
    /\ UNCHANGED <<urls, events, mode, pc, idx, outcome, sent, err, probes, base,
                   resume, fn, arg, ret>>

Day ==
    /\ Stopped
    /\ (clock - StartTicks) \div WindowTicks < MaxDays
    /\ clock' = clock + WindowTicks
    /\ UNCHANGED <<urls, events, mode, pc, idx, outcome, sent, err, probes, base,
                   resume, fn, arg, ret>>

-----------------------------------------------------------------------------
(* A process invocation: get_config, then the mode --type names.           *)

Start(type, at) ==
    /\ Stopped
    /\ mode' = type
    /\ pc' = at
    /\ idx' = 1
    /\ outcome' = NoOutcome
    /\ sent' = <<>>
    /\ err' = "none"
    /\ probes' = <<>>
    /\ base' = Len(events)
    /\ resume' = NoResume
    /\ UNCHANGED <<urls, events, clock, fn, arg, ret>>

StartRegular == Len(events) + Len(urls) <= MaxEvents /\ Start("regular", "loop")

StartResume == Start("resume", "query")

\* an exception leaves the process: nothing else of it changes
Fatal(exc) ==
    /\ pc' = "fatal"
    /\ err' = exc

-----------------------------------------------------------------------------
(* run_regular.                                                            *)

\* the answers the network gives to the probes of a run
RunHttpAnswers ==
    {[kind |-> "status", status |-> HttpOkLow, reason |-> ""],
     [kind |-> "status", status |-> ServerErrorStatus, reason |-> "Internal Server Error"],
     [kind |-> "transport", status |-> 0, reason |-> ""]}

\* run_url(url), for the url types find_url_type returns
run_url(url, http, tcp) ==
    IF find_url_type(url) = "urllib" THEN request(http) ELSE telnet(url, tcp)

RunUrlRaises_skipped ==
    /\ idx' = idx + 1
    /\ pc' = IF idx = Len(urls) THEN "done" ELSE "loop"
    /\ UNCHANGED <<urls, events, clock, mode, outcome, sent, err, probes, base,
                   resume, fn, arg, ret>>

\* find_url_type raises out of run_url and out of the loop
RunUrlRaises ==
    /\ Fatal(MonitoringException)
    /\ UNCHANGED <<urls, events, clock, mode, idx, outcome, sent, probes, base,
                   resume, fn, arg, ret>>

\* for url in urls: status, context = run_url(url)
RunUrl ==
    /\ pc = "loop"
    /\ IF find_url_type(urls[idx]) = MonitoringException
       THEN RunUrlRaises
       ELSE \E http \in RunHttpAnswers, tcp \in TcpAnswers :
              /\ outcome' = run_url(urls[idx], http, tcp)
              /\ probes' = Append(probes, [url |-> urls[idx], status |-> outcome'[1]])
              /\ pc' = IF outcome'[1] THEN "log" ELSE "alert"
              /\ UNCHANGED <<urls, events, clock, mode, idx, sent, err, base,
                             resume, fn, arg, ret>>

\* send_notification: the message smtp.send_message is given
send_notification(smtp, subject, message) ==
    Append(smtp, [subject |-> subject, message |-> message])

SendAlertFails_swallowed ==
    /\ pc' = "log"
    /\ err' = "SMTPException"
    /\ UNCHANGED <<urls, events, clock, mode, idx, outcome, sent, probes, base,
                   resume, fn, arg, ret>>

\* smtp.send_message raises out of send_notification and out of the loop
SendAlertFails ==
    /\ Fatal("SMTPException")
    /\ UNCHANGED <<urls, events, clock, mode, idx, outcome, sent, probes, base,
                   resume, fn, arg, ret>>

\* if not status: send_notification(...)
SendAlert ==
    /\ pc = "alert"
    /\ \/ /\ sent' = send_notification(sent, UrgentSubject(urls[idx]),
                                       build_message(urls[idx], outcome[2]))
          /\ pc' = "log"
          /\ UNCHANGED <<urls, events, clock, mode, idx, outcome, err, probes, base,
                         resume, fn, arg, ret>>
       \/ SendAlertFails

EventFor_success(url, status) == SuccessEvent(url)

\* the description run_regular logs for a probe
EventFor(url, status) == IF status THEN SuccessEvent(url) ELSE FailedEvent(url)

\* log_event(db, ...), then the next url or the end of the loop
LogEvent ==
    /\ pc = "log"
    /\ \/ /\ events' = log_event(events, clock, EventFor(urls[idx], outcome[1]))
          /\ idx' = idx + 1
          /\ pc' = IF idx = Len(urls) THEN "done" ELSE "loop"
          /\ UNCHANGED <<urls, clock, mode, outcome, sent, err, probes, base,
                         resume, fn, arg, ret>>
       \/ /\ Fatal("sqlite3.Error")
          /\ UNCHANGED <<urls, events, clock, mode, idx, outcome, sent, probes, base,
                         resume, fn, arg, ret>>

-----------------------------------------------------------------------------
(* run_resume.                                                             *)

RECURSIVE Sum(_)
Sum(s) == IF s = <<>> THEN 0 ELSE Head(s) + Sum(Tail(s))

\* url_status_list: (url, failed_count, success_count) for each url
UrlStatusList(db, list, yesterday, today) ==
    [k \in 1..Len(list) |->
        <<list[k],
          query_event_count(db, FailedEvent(list[k]), yesterday, today),
          query_event_count(db, SuccessEvent(list[k]), yesterday, today)>>]

TotalErrors(usl) == Sum([k \in 1..Len(usl) |-> usl[k][2]])

TotalRuns_successes(usl) == Sum([k \in 1..Len(usl) |-> usl[k][3]])

TotalRuns(usl) == TotalErrors(usl) + Sum([k \in 1..Len(usl) |-> usl[k][3]])

\* per_url_message: (url, errors, runs) for each url
PerUrl(usl) == [k \in 1..Len(usl) |-> <<usl[k][1], usl[k][2], usl[k][3] + usl[k][2]>>]

\* the values the digest template interpolates; the window is printed cut
\* to the second
ResumeMessage(r) ==
    [from |-> IntSeconds(r.yesterday), until |-> IntSeconds(r.today),
     total_runs |-> r.total_runs, total_errors |-> r.total_errors,
     per_url |-> PerUrl(r.url_status_list)]

ResumeQuery_logged ==
    /\ pc = "query"
    /\ events' = log_event(events, clock, <<"resume">>)
    /\ pc' = "send"
    /\ UNCHANGED <<urls, clock, mode, idx, outcome, sent, err, probes, base,
                   resume, fn, arg, ret>>

\* today, yesterday, the queries and the totals
ResumeQuery ==
    /\ pc = "query"
    /\ \/ /\ LET today == clock
                 yesterday == clock - WindowTicks
                 usl == UrlStatusList(events, urls, yesterday, today)
             IN  resume' = [today |-> today, yesterday |-> yesterday,
                            url_status_list |-> usl,
                            total_errors |-> TotalErrors(usl),
                            total_runs |-> TotalRuns(usl)]
          /\ pc' = "send"
          /\ UNCHANGED <<urls, events, clock, mode, idx, outcome, sent, err, probes,
                         base, fn, arg, ret>>
       \/ /\ Fatal("sqlite3.Error")
          /\ UNCHANGED <<urls, events, clock, mode, idx, outcome, sent, probes, base,
                         resume, fn, arg, ret>>

\* send_notification(smtp, "Monitoring Daily Resume", message, ...)
ResumeSend ==
    /\ pc = "send"
    /\ \/ /\ sent' = send_notification(sent, ResumeSubject, ResumeMessage(resume))
          /\ pc' = "done"
          /\ UNCHANGED <<urls, events, clock, mode, idx, outcome, err, probes, base,
                         resume, fn, arg, ret>>
       \/ /\ Fatal("SMTPException")
          /\ UNCHANGED <<urls, events, clock, mode, idx, outcome, sent, probes, base,
                         resume, fn, arg, ret>>

Next ==
    \/ Tick
    \/ Day
    \/ StartRegular
    \/ StartResume
    \/ RunUrl
    \/ SendAlert
    \/ LogEvent
    \/ ResumeQuery
    \/ ResumeSend

Spec == Init /\ [][Next]_vars

-----------------------------------------------------------------------------
(* Single calls of find_url_type, request and query_event_count, on inputs *)
(* drawn from bounded sets.                                                *)

\* the pieces descriptors are put together from
DescriptorPieces ==
    {<<"h","t","t","p">>, <<"s">>, <<"H">>, <<"a">>, <<"1">>, <<"_">>,
     <<":">>, <<"/">>, <<"?">>, <<";">>}

Descriptors == {Flatten(ps) : ps \in SeqsUpTo(DescriptorPieces, MaxTokens)}

CallFindUrlType ==
    /\ fn = "none"
    /\ \E url \in Descriptors :
          /\ fn' = "find_url_type"
          /\ arg' = [url |-> url]
          /\ ret' = [type |-> find_url_type(url)]
    /\ UNCHANGED runVars

CallRequest ==
    /\ fn = "none"
    /\ \E answer \in HttpAnswers :
          /\ fn' = "request"
          /\ arg' = [answer |-> answer]
          /\ ret' = [outcome |-> request(answer)]
    /\ UNCHANGED runVars

\* the seconds of the rows and the ticks of the window bounds of a query
CallSeconds == StartSec..(StartSec + MaxSpan)
CallTicks == (StartSec * Res)..(StartSec * Res + MaxSpan * Res + Res - 1)
CallEvents == {FailedEvent(TcpA), SuccessEvent(TcpA)}

\* the table after log_event for each (second, description) of ws, each call
\* made late in its second
RECURSIVE Logged(_)
Logged(ws) ==
    IF ws = <<>> THEN <<>>
    ELSE log_event(Logged(SubSeq(ws, 1, Len(ws) - 1)),
                   ws[Len(ws)][1] * Res + Res - 1, ws[Len(ws)][2])

CallQuery ==
    /\ fn = "none"
    /\ \E ws \in SeqsUpTo(CallSeconds \X CallEvents, MaxStore), event \in CallEvents,
          start \in CallTicks, end \in CallTicks :
          /\ fn' = "query_event_count"
          /\ arg' = [db |-> Logged(ws), event |-> event, start |-> start, end |-> end]
          /\ ret' = [count |-> query_event_count(Logged(ws), event, start, end)]
    /\ UNCHANGED runVars

NextCall ==
    \/ CallFindUrlType
    \/ CallRequest
    \/ CallQuery

\* the calls are made beside a process that has not started
InitCalls == InitRun(<<HttpA>>) /\ InitCall

SpecCalls == InitCalls /\ [][NextCall]_vars

-----------------------------------------------------------------------------
(* Properties.                                                             *)

\* events appended by the running process
Appended == Len(events) - base

\* the k-th event appended by the running process
AppendedEvent(k) == events[base + k]

Unrecognized(url) == find_url_type(url) = MonitoringException

HasBad == \E k \in 1..Len(urls) : Unrecognized(urls[k])

FirstBad == CHOOSE k \in 1..Len(urls) :
                Unrecognized(urls[k]) /\ \A j \in 1..(k - 1) : ~Unrecognized(urls[j])

\* "failed" events among those the running process appended
FailedAppended ==
    Cardinality({k \in 1..Appended : AppendedEvent(k).description = FailedEvent(urls[k])})

\* the subjects of the alerts due for the failed probes of ps, in order
RECURSIVE AlertsDue(_)
AlertsDue(ps) ==
    IF ps = <<>> THEN <<>>
    ELSE (IF Head(ps).status THEN <<>> ELSE <<UrgentSubject(Head(ps).url)>>)
             \o AlertsDue(Tail(ps))

Subjects(msgs) == [k \in 1..Len(msgs) |-> msgs[k].subject]

(* C1, as claimed: in every state of a run_regular execution in which the  *)
(* handling of the last completed probe is over (between two endpoints, at *)
(* the end of the loop, or after a fatal error), the events appended by    *)
(* the run are as many as the probes completed.                            *)
C1_Original ==
    mode = "regular" /\ pc \in {"loop", "done", "fatal"} => Appended = Len(probes)

(* C1, amended: the run appends one event per completed probe, in order    *)
(* and never more than one; the last completed probe has no event yet      *)
(* while its alert or append is pending, and gets none when its alert send *)
(* or its append fails, so such a run ends with one event fewer than       *)
(* probes completed; a run ended by a later classification failure has one *)
(* event for every completed probe.                                        *)
C1_Amended ==
    mode = "regular" =>
        /\ pc \in {"loop", "done"} => Appended = Len(probes)
        /\ pc = "fatal" /\ err = MonitoringException => Appended = Len(probes)
        /\ pc \in {"alert", "log"} => Appended = Len(probes) - 1
        /\ pc = "fatal" /\ err # MonitoringException => Appended = Len(probes) - 1
        /\ \A k \in 1..Appended :
              /\ k <= Len(probes)
              /\ AppendedEvent(k).description
                     \in {SuccessEvent(probes[k].url), FailedEvent(probes[k].url)}

\* a run of two probes ended by the failed alert of the second: one event
C1_Witness ==
    /\ mode = "regular" /\ pc = "fatal" /\ err = "SMTPException"
    /\ Len(probes) = 2 /\ Appended = 1

(* C2, as claimed: with an unrecognized descriptor anywhere in the list, a *)
(* regular run appends no event at all and ends in the                     *)
(* unrecognized-endpoint error.                                            *)
C2_Original ==
    mode = "regular" /\ HasBad =>
        /\ Appended = 0
        /\ pc \in {"done", "fatal"} => pc = "fatal" /\ err = MonitoringException

(* C2, amended: with an unrecognized descriptor in the list a regular run  *)
(* never completes; it probes and logs only endpoints listed before the    *)
(* first unrecognized one, so no event is written for that descriptor or   *)
(* for any endpoint after it; and when it reaches that descriptor (no      *)
(* alert send or append failed before) it fails there with the             *)
(* unrecognized-endpoint error, every endpoint before it having its event. *)
C2_Amended ==
    mode = "regular" /\ HasBad =>
        /\ pc # "done"
        /\ idx <= FirstBad
        /\ Len(probes) <= FirstBad - 1
        /\ Appended <= FirstBad - 1
        /\ \A k \in 1..Appended :
              AppendedEvent(k).description \in {SuccessEvent(urls[k]), FailedEvent(urls[k])}
        /\ pc = "fatal" /\ err = MonitoringException =>
              idx = FirstBad /\ Appended = FirstBad - 1
        /\ pc = "fatal" /\ err # MonitoringException => idx < FirstBad

\* the second descriptor is unrecognized, the first has been probed and logged
C2_Witness ==
    /\ mode = "regular" /\ pc = "fatal" /\ err = MonitoringException
    /\ Len(urls) = 2 /\ FirstBad = 2 /\ Appended = 1

(* C3, as claimed: in a regular run where every endpoint classifies and no *)
(* alert send fails, at the end of the run the alerts sent are as many as  *)
(* the "failed" events appended.                                           *)
C3_Original ==
    mode = "regular" /\ ~HasBad /\ pc \in {"done", "fatal"} /\ err # "SMTPException" =>
        Len(sent) = FailedAppended

(* C3, amended: in a regular run where every endpoint classifies,          *)
(* endpoints are probed in listed order; each appended event is "failed e" *)
(* for a failed probe of e and "success e" for a successful one, in that   *)
(* order; the alerts sent are exactly those for the failed probes, in      *)
(* order, each sent before its event is appended; and a run in which every *)
(* alert send and every append succeeds handles every endpoint and ends    *)
(* with as many alerts as "failed" events.                                 *)
C3_Amended ==
    mode = "regular" /\ ~HasBad =>
        /\ \A k \in 1..Len(probes) : probes[k].url = urls[k]
        /\ \A k \in 1..Appended :
              AppendedEvent(k).description =
                  IF probes[k].status THEN SuccessEvent(urls[k]) ELSE FailedEvent(urls[k])
        /\ Subjects(sent) =
              AlertsDue(IF pc = "alert" \/ (pc = "fatal" /\ err = "SMTPException")
                        THEN SubSeq(probes, 1, Len(probes) - 1) ELSE probes)
        /\ pc = "log" /\ ~outcome[1] => Len(sent) = FailedAppended + 1
        /\ pc = "loop" => Len(sent) = FailedAppended /\ idx = Len(probes) + 1
        /\ pc = "done" =>
              /\ Len(probes) = Len(urls)
              /\ Appended = Len(urls)
              /\ Len(sent) = FailedAppended

\* a completed run whose first probe failed and whose second succeeded
C3_Witness ==
    /\ mode = "regular" /\ pc = "done" /\ Len(urls) = 2
    /\ ~probes[1].status /\ probes[2].status
    /\ Len(sent) = 1 /\ Appended = 2

\* a step that starts a new process invocation
Restarted == Stopped /\ pc' \in {"loop", "query"}

(* C4: a failed send ends the process in a fatal error at once: the step   *)
(* in which the send fails appends no event, probes nothing and sends      *)
(* nothing, and afterwards the process stays in the fatal state with its   *)
(* events, probes and messages as they were (only a new invocation goes    *)
(* on).                                                                    *)
C4_SendFailureIsFatal ==
    [][/\ err' = "SMTPException" => pc' = "fatal"
       /\ err' = "SMTPException" /\ err # "SMTPException" =>
              events' = events /\ probes' = probes /\ sent' = sent /\ idx' = idx
       /\ err = "SMTPException" /\ ~Restarted =>
              /\ pc' = "fatal" /\ err' = err
              /\ events' = events /\ probes' = probes /\ sent' = sent /\ idx' = idx]_vars

\* a failed alert with an endpoint still to come: it is never probed
C4_Witness ==
    /\ mode = "regular" /\ pc = "fatal" /\ err = "SMTPException"
    /\ idx < Len(urls) /\ Len(probes) = idx /\ Appended = idx - 1

\* rows of db with the description `event`
RowsOf(db, event) == {i \in 1..Len(db) : db[i].description = event}

\* those stamped within [start, end], the bounds in ticks as they are given
RowsWithin(db, event, start, end) ==
    {i \in RowsOf(db, event) : start <= db[i].ts * Res /\ db[i].ts * Res <= end}

\* those stamped within [int(start), int(end)], the bounds cut to whole seconds
RowsWithinSeconds(db, event, start, end) ==
    {i \in RowsOf(db, event) : IntSeconds(start) <= db[i].ts /\ db[i].ts <= IntSeconds(end)}

(* C5, as claimed: query_event_count returns the number of stored events   *)
(* with the description asked for whose timestamp t lies in the window     *)
(* given, start <= t <= end (for a window with start <= end).              *)
C5_Original ==
    fn = "query_event_count" /\ arg.start <= arg.end =>
        ret.count = Cardinality(RowsWithin(arg.db, arg.event, arg.start, arg.end))

(* C5, amended: query_event_count returns the number of stored events with *)
(* the description asked for whose timestamp t satisfies                   *)
(* int(start) <= t <= int(end), both bounds cut to whole seconds and both  *)
(* inclusive: a window covering the timestamps of all N events with that   *)
(* description returns N, a window that ends before the earliest or starts *)
(* a whole second or more after the latest returns 0, and                  *)
(* start == end == an event's timestamp counts that event.                 *)
C5_Amended ==
    fn = "query_event_count" =>
        LET same == RowsOf(arg.db, arg.event)
        IN  /\ ret.count =
                   Cardinality(RowsWithinSeconds(arg.db, arg.event, arg.start, arg.end))
            /\ (\A i \in same : arg.start <= arg.db[i].ts * Res /\ arg.db[i].ts * Res <= arg.end)
                   => ret.count = Cardinality(same)
            /\ (\A i \in same : arg.end < arg.db[i].ts * Res) => ret.count = 0
            /\ (\A i \in same : arg.start >= (arg.db[i].ts + 1) * Res) => ret.count = 0
            /\ \A i \in same : arg.start = arg.db[i].ts * Res /\ arg.end = arg.start => ret.count >= 1

\* a window that starts and ends within the second of two matching rows,
\* later than their timestamp: both are counted
C5_Witness ==
    /\ fn = "query_event_count"
    /\ arg.start = arg.end /\ arg.start % Res # 0
    /\ Len(arg.db) >= 2
    /\ \A i \in 1..Len(arg.db) :
          arg.db[i].description = arg.event /\ arg.db[i].ts = IntSeconds(arg.start)
    /\ ret.count = Len(arg.db)

\* the digest that run_resume sent
Digest == sent[1].message

(* C6, as claimed: a completed resume run reports for each endpoint e the  *)
(* pair (failed, failed + success) counted over the events with timestamp  *)
(* in [now - 24h, now], the totals summed from them, in one message.       *)
C6_Original ==
    mode = "resume" /\ pc = "done" =>
        LET Stored(event) ==
                Cardinality(RowsWithin(events, event, resume.yesterday, resume.today))
            F(k) == Stored(FailedEvent(urls[k]))
            S(k) == Stored(SuccessEvent(urls[k]))
        IN  /\ Len(sent) = 1
            /\ Digest.per_url = [k \in 1..Len(urls) |-> <<urls[k], F(k), F(k) + S(k)>>]
            /\ Digest.total_errors = Sum([k \in 1..Len(urls) |-> F(k)])
            /\ Digest.total_runs = Digest.total_errors + Sum([k \in 1..Len(urls) |-> S(k)])

(* C6, amended: a resume run that completes sends exactly one message,     *)
(* the digest, which reports for each endpoint e the pair                  *)
(* (failed, failed + success) counted over the events "failed e" and       *)
(* "success e" with timestamp in [int(now - 24h), int(now)], the window    *)
(* cut to whole seconds as the digest prints it, and the totals            *)
(* totalFailures = sum of failed, totalRuns = totalFailures + sum of       *)
(* success; events stamped before the second in which the window starts    *)
(* are left out.                                                           *)
C6_Amended ==
    mode = "resume" /\ pc = "done" =>
        LET Stored(event) ==
                Cardinality(RowsWithinSeconds(events, event, resume.yesterday, resume.today))
            F(k) == Stored(FailedEvent(urls[k]))
            S(k) == Stored(SuccessEvent(urls[k]))
        IN  /\ resume.yesterday = resume.today - WindowHours * SecondsPerHour * Res
            /\ Len(sent) = 1
            /\ sent[1].subject = ResumeSubject
            /\ Digest.from = IntSeconds(resume.yesterday)
            /\ Digest.until = IntSeconds(resume.today)
            /\ Digest.per_url = [k \in 1..Len(urls) |-> <<urls[k], F(k), F(k) + S(k)>>]
            /\ Digest.total_errors = Sum([k \in 1..Len(urls) |-> F(k)])
            /\ Digest.total_runs = Digest.total_errors + Sum([k \in 1..Len(urls) |-> S(k)])

\* a digest over one endpoint: one failure and one success in the window,
\* an older success left out
C6_Witness ==
    /\ mode = "resume" /\ pc = "done" /\ Len(urls) = 1 /\ Len(events) = 3
    /\ events[1].description = SuccessEvent(urls[1])
    /\ events[1].ts < IntSeconds(resume.yesterday)
    /\ Digest.per_url = << <<urls[1], 1, 2>> >>
    /\ Digest.total_runs = 2 /\ Digest.total_errors = 1

(* C7: no step of a resume run changes the stored events, whether the run  *)
(* completes or fails.                                                     *)
C7_ResumeWritesNothing == [][mode' = "resume" => events' = events]_vars

\* a resume run has completed over a store that holds events
C7_Witness == mode = "resume" /\ pc = "done" /\ Len(events) > 0 /\ base = Len(events)

\* the descriptor starts with "http:" or "https:", in either case of letters
HasHttpScheme(url) ==
    LET i == Find(url, ":")
    IN  i > 0 /\ Lower(Before(url, i)) \in {<<"h","t","t","p">>, <<"h","t","t","p","s">>}

\* the characters of a host name or address
HostChars == Range(LowerLetters) \cup Range(UpperLetters) \cup DigitChars \cup {".", "-", "_"}

\* host:port, the host a name that starts with a letter, the port the digits
\* after the ":"
IsHostPort(url) ==
    LET i == RFind(url, ":")
    IN  /\ i > 1 /\ IsDigit(After(url, i))
        /\ IsAsciiAlpha(url[1]) /\ \A k \in 1..(i - 1) : url[k] \in HostChars

(* C8, as claimed: a descriptor with scheme http or https classifies as    *)
(* HTTP; any other host:port descriptor whose port segment is all digits   *)
(* classifies as TCP, whatever the host part is (here: whatever host name  *)
(* it is).                                                                 *)
C8_HostPortClassifies ==
    fn = "find_url_type" =>
        /\ HasHttpScheme(arg.url) => ret.type = "urllib"
        /\ ~HasHttpScheme(arg.url) /\ IsHostPort(arg.url) => ret.type = "telnet"

(* C9: request answers every status in 200..499 with (True, ""), every     *)
(* HTTP error of status 500 or more with (False, reason phrase), every     *)
(* transport failure with (False, a diagnostic that is not empty), and     *)
(* always returns such a pair.                                             *)
C9_RequestOutcome ==
    fn = "request" =>
        LET answer == arg.answer
            status == ret.outcome[1]
            context == ret.outcome[2]
        IN  /\ answer.kind = "status" /\ answer.status >= 200 /\ answer.status <= 499 =>
                   status = TRUE /\ context = ""
            /\ answer.kind = "status" /\ answer.status >= 500 =>
                   status = FALSE /\ context = answer.reason
            /\ answer.kind = "transport" => status = FALSE /\ context # ""
            /\ Len(ret.outcome) = 2 /\ status \in BOOLEAN

\* a 500 answered with its reason phrase
C9_Witness ==
    /\ fn = "request" /\ arg.answer.kind = "status" /\ arg.answer.status = 500
    /\ ret.outcome = <<FALSE, "Internal Server Error">>

(* C10, as claimed: the digest's Total Runs is the number of stored events *)
(* in the window that are "success e" or "failed e" for a configured e,    *)
(* each counted once, and Total Errors the number of the "failed e" ones,  *)
(* whatever the endpoint list.                                             *)
C10_TotalsCountEachEventOnce ==
    mode = "resume" /\ pc = "done" =>
        LET Within(event) ==
                RowsWithinSeconds(events, event, resume.yesterday, resume.today)
            failed == UNION {Within(FailedEvent(urls[k])) : k \in 1..Len(urls)}
            success == UNION {Within(SuccessEvent(urls[k])) : k \in 1..Len(urls)}
        IN  /\ Digest.total_errors = Cardinality(failed)
            /\ Digest.total_runs = Cardinality(failed) + Cardinality(success)

====
